---- MODULE Spec2Model ----
(***************************************************************************)
(* xmlschema/codepoints.py: UnicodeSubset (an ordered list of code points  *)
(* and code point ranges), parse_character_group, iter_code_points and     *)
(* build_unicode_categories; validators/parseutils.py: iter_xsd_components.*)
(*                                                                         *)
(* An item of a code point list is <<cp>> for the Python int cp and        *)
(* <<lo, hi>> for the Python tuple (lo, hi); isinstance(x, int) is         *)
(* Len(x) = 1.  A Python str is a sequence of one-character strings.       *)
(***************************************************************************)
EXTENDS Integers, Sequences, FiniteSets, TLC

VARIABLES
    maxunicode,     \* sys.maxunicode of the build
    code_points,    \* self._code_points of the UnicodeSubset under test
    other,          \* _code_points of a second UnicodeSubset
    third,          \* _code_points of a third UnicodeSubset
    op,             \* name of the last call
    arg,            \* its argument
    pre,            \* self._code_points when the call started
    ret,            \* what the call returned or yielded, as a sequence
    err,            \* the exception the call raised, "" for none
    gen,            \* frame of a running parse_character_group generator
    build,          \* frame of a running build_unicode_categories call
    components,     \* frame of a running iter_xsd_components generator
    ids             \* which list object each of the three sets holds as _code_points

vars == <<maxunicode, code_points, other, third, op, arg, pre, ret, err, gen, build, components, ids>>

\* ---------------------------------------------------------------- bounds

\* sys.maxunicode of the small build explored by Spec
MaxCodePoint == 4

\* the longest collection handed to the constructor in SpecBuild
MaxSourceLen == 3

\* sys.maxunicode of the build in which SpecUnion combines three sets
MaxUnionCodePoint == 2

\* the longest character group body parsed in SpecParse
MaxBodyLen == 4

\* ---------------------------------------------------------------- helpers

Max(a, b) == IF a >= b THEN a ELSE b
Min(a, b) == IF a <= b THEN a ELSE b

\* start_cp, end_cp of an item (int or tuple)
start_of(cp) == cp[1]
end_of(cp) == IF Len(cp) = 1 THEN cp[1] ELSE cp[2]

\* list.insert(pos, x) with a 1-based position: x ends up at index pos
list_insert(l, pos, x) == SubSeq(l, 1, pos - 1) \o <<x>> \o SubSeq(l, pos, Len(l))

\* del l[pos]
list_del(l, pos) == SubSeq(l, 1, pos - 1) \o SubSeq(l, pos + 1, Len(l))

\* l[pos] = x
list_set(l, pos, x) == [l EXCEPT ![pos] = x]

\* list(reversed(l))
reversed(l) == [k \in 1..Len(l) |-> l[Len(l) + 1 - k]]

\* the int / tuple values with both ends in lo..hi and start <= end
Items(lo, hi) == {<<c>> : c \in lo..hi} \cup {ab \in (lo..hi) \X (lo..hi) : ab[1] <= ab[2]}

\* ---------------------------------------------------------------- UnicodeSubset.add

\* the domain test at the head of add and discard
valid_value(value) ==
    IF Len(value) = 1
    THEN 0 <= value[1] /\ value[1] <= maxunicode
    ELSE 0 <= value[1] /\ value[1] <= value[2] /\ value[2] <= maxunicode

\* the exception raised for a value that fails the domain test: formatting the
\* message with "%r" % value raises TypeError when value is a tuple of two
domain_error(value) == IF Len(value) = 1 THEN "ValueError" ELSE "TypeError"

\* the body of the loop of add at position pos, and the loop's else clause
RECURSIVE add_loop(_, _, _)
add_loop(l, pos, value) ==
    IF pos > Len(l)
    THEN Append(l, value)
    ELSE LET start_value == start_of(value)
             end_value == end_of(value)
             start_cp == start_of(l[pos])
             end_cp == end_of(l[pos])
             higher_limit == IF pos + 1 > Len(l) THEN maxunicode + 1 ELSE start_of(l[pos + 1])
         IN  IF start_value < start_cp
             THEN IF start_value = start_cp - 1 \/ end_value >= start_cp - 1
                  THEN list_set(l, pos, <<start_value, Max(Min(end_value, higher_limit - 1), end_cp)>>)
                  ELSE list_insert(l, pos, value)
             ELSE IF start_value > end_cp + 1
             THEN add_loop(l, pos + 1, value)
             ELSE IF end_cp > start_cp
             THEN list_set(l, pos, <<start_cp, Max(Min(end_value, higher_limit - 1), end_cp)>>)
             ELSE IF end_value > start_cp
             THEN list_set(l, pos, <<start_cp, Min(end_value, higher_limit - 1)>>)
             ELSE l

\* add that appends the value without looking for its place
add_appends(l, value) == Append(l, value)

\* add(value) for a value that passed the domain test
add(l, value) == add_loop(l, 1, value)

\* ---------------------------------------------------------------- UnicodeSubset.discard

\* the body of the loop of discard at position pos, pos running downwards
RECURSIVE discard_loop(_, _, _)
discard_loop(l, pos, value) ==
    IF pos < 1
    THEN l
    ELSE LET start_value == start_of(value)
             end_value == end_of(value)
             start_cp == start_of(l[pos])
             end_cp == end_of(l[pos])
         IN  IF start_value > end_cp
             THEN l
             ELSE IF end_value >= end_cp
             THEN IF start_value <= start_cp
                  THEN discard_loop(list_del(l, pos), pos - 1, value)
                  ELSE IF start_value - start_cp > 1
                  THEN discard_loop(list_set(l, pos, <<start_cp, start_value - 1>>), pos - 1, value)
                  ELSE discard_loop(list_set(l, pos, <<start_cp>>), pos - 1, value)
             ELSE IF end_value >= start_cp
             THEN IF start_value <= start_cp
                  THEN IF end_cp - end_value > 1
                       THEN discard_loop(list_set(l, pos, <<end_value + 1, end_cp>>), pos - 1, value)
                       ELSE discard_loop(list_set(l, pos, <<end_cp>>), pos - 1, value)
                  ELSE LET tail == IF end_cp - end_value > 1 THEN <<end_value + 1, end_cp>> ELSE <<end_cp>>
                           head == IF start_value - start_cp > 1 THEN <<start_cp, start_value - 1>> ELSE <<start_cp>>
                       IN  discard_loop(list_set(list_insert(l, pos + 1, tail), pos, head), pos - 1, value)
             ELSE discard_loop(l, pos - 1, value)

\* discard that forgets the upper remainder when it splits an item
discard_drops_upper_part(l, value) ==
    LET r == discard_loop(l, Len(l), value)
    IN  IF Len(r) > Len(l)
        THEN list_del(r, 1 + CHOOSE k \in 1..Len(l) :
                             start_of(l[k]) < start_of(value) /\ end_of(value) < end_of(l[k]))
        ELSE r

\* discard that tests start_value < start_cp at line 371: an item that starts
\* where the value starts and ends inside it is cut down to its first code
\* point
discard_keeps_start(l, value) ==
    LET r == discard_loop(l, Len(l), value)
        kept == {k \in 1..Len(l) :
                    start_of(l[k]) = start_of(value) /\ end_of(value) >= end_of(l[k])}
        before == Cardinality({k \in 1..Len(r) : start_of(r[k]) < start_of(value)})
    IN  IF kept = {} THEN r ELSE list_insert(r, before + 1, <<start_of(value)>>)

\* discard(value) for a value that passed the domain test
discard(l, value) == discard_loop(l, Len(l), value)

\* ---------------------------------------------------------------- __contains__, __iter__

\* the scan of __contains__ from position pos
RECURSIVE contains_loop(_, _, _)
contains_loop(l, pos, code_point) ==
    IF pos > Len(l)
    THEN FALSE
    ELSE LET cp == l[pos]
         IN  IF Len(cp) # 1
             THEN IF cp[1] > code_point THEN FALSE
                  ELSE IF cp[2] < code_point THEN contains_loop(l, pos + 1, code_point)
                  ELSE TRUE
             ELSE IF cp[1] > code_point THEN FALSE
             ELSE IF cp[1] = code_point THEN TRUE
             ELSE contains_loop(l, pos + 1, code_point)

\* __contains__ with the upper end of a range taken as exclusive
RECURSIVE contains_exclusive_end(_, _)
contains_exclusive_end(l, code_point) ==
    IF l = <<>> THEN FALSE
    ELSE IF Len(l[1]) # 1
    THEN IF l[1][1] > code_point THEN FALSE
         ELSE IF l[1][2] <= code_point THEN contains_exclusive_end(Tail(l), code_point)
         ELSE TRUE
    ELSE IF l[1][1] > code_point THEN FALSE
    ELSE IF l[1][1] = code_point THEN TRUE
    ELSE contains_exclusive_end(Tail(l), code_point)

contains(l, code_point) == contains_loop(l, 1, code_point)

\* range(a, b + 1) as a sequence
RECURSIVE range_seq(_, _)
range_seq(a, b) == IF a > b THEN <<>> ELSE <<a>> \o range_seq(a + 1, b)

\* the sequence __iter__ yields from position pos on
RECURSIVE iter_loop(_, _)
iter_loop(l, pos) ==
    IF pos > Len(l)
    THEN <<>>
    ELSE (IF Len(l[pos]) = 1 THEN <<l[pos][1]>> ELSE range_seq(l[pos][1], l[pos][2])) \o iter_loop(l, pos + 1)

iter(l) == iter_loop(l, 1)

\* ---------------------------------------------------------------- characters

\* the characters the model's strings are made of
Chars == {"(", ")", "*", "+", "-", ".", "?", "A", "[", "\\", "]", "^",
          "a", "b", "c", "d", "e", "f", "z", "{", "|", "}"}

\* ord(c)
ord(c) ==
    CASE c = "(" -> 40 [] c = ")" -> 41 [] c = "*" -> 42 [] c = "+" -> 43
      [] c = "-" -> 45 [] c = "." -> 46 [] c = "?" -> 63 [] c = "A" -> 65
      [] c = "[" -> 91 [] c = "\\" -> 92 [] c = "]" -> 93 [] c = "^" -> 94
      [] c = "a" -> 97 [] c = "b" -> 98 [] c = "c" -> 99 [] c = "d" -> 100
      [] c = "e" -> 101 [] c = "f" -> 102 [] c = "z" -> 122
      [] c = "{" -> 123 [] c = "|" -> 124 [] c = "}" -> 125

\* unicode_chr(cp), for the code points of Chars
unicode_chr(cp) == CHOOSE c \in Chars : ord(c) = cp

\* the characters of r'-|.^?*+{}()[]', of r'|.^?*+{}()' and of r'[]'
GroupEscapedChars == {"-", "|", ".", "^", "?", "*", "+", "{", "}", "(", ")", "[", "]"}
MetaChars == {"|", ".", "^", "?", "*", "+", "{", "}", "(", ")"}
BracketChars == {"[", "]"}

CHARACTER_GROUP_ESCAPED == {ord(c) : c \in GroupEscapedChars}

\* ---------------------------------------------------------------- code_point_repr, __unicode__

\* '\%s' % unicode_chr(cp) if cp is in CHARACTER_GROUP_ESCAPED else unicode_chr(cp)
escaped_repr(cp) ==
    IF cp \in CHARACTER_GROUP_ESCAPED THEN <<"\\", unicode_chr(cp)>> ELSE <<unicode_chr(cp)>>

code_point_repr(cp) ==
    IF Len(cp) = 1
    THEN escaped_repr(cp[1])
    ELSE IF cp[2] > cp[1] + 1
         THEN escaped_repr(cp[1]) \o <<"-">> \o escaped_repr(cp[2])
         ELSE escaped_repr(cp[1]) \o escaped_repr(cp[2])

\* ''.join(code_point_repr(cp) for cp in self._code_points), from position pos on
RECURSIVE unicode_loop(_, _)
unicode_loop(l, pos) ==
    IF pos > Len(l) THEN <<>> ELSE code_point_repr(l[pos]) \o unicode_loop(l, pos + 1)

to_unicode(l) == unicode_loop(l, 1)

\* ---------------------------------------------------------------- parse_character_group

NoError == [kind |-> "", chars |-> <<>>, position |-> 0 - 1]

\* the generator's frame before its first step; i is the next index string_iter gives
gen_start(s, expand_ranges) ==
    [state |-> "run", s |-> s, expand_ranges |-> expand_ranges, i |-> 0,
     escaped |-> FALSE, char |-> "None", out |-> <<>>, error |-> NoError]

NoGen == [state |-> "none", s |-> <<>>, expand_ranges |-> FALSE, i |-> 0,
          escaped |-> FALSE, char |-> "None", out |-> <<>>, error |-> NoError]

\* s[i] for the 0-based index i
s_at(g, i) == g.s[i + 1]

gen_raise(g, kind, chars, position) ==
    [g EXCEPT !.state = "error", !.error = [kind |-> kind, chars |-> chars, position |-> position]]

\* one code point per element of range(a, b + 1)
RECURSIVE range_items(_, _)
range_items(a, b) == IF a > b THEN <<>> ELSE <<<<a>>>> \o range_items(a + 1, b)

\* the branch i == 0 without the test len(s) <= 2 of line 74
scan_first_skips(g) ==
    LET char == g.s[1]
        g1 == [g EXCEPT !.i = 1, !.char = char]
    IN  IF char = "\\"
        THEN [g1 EXCEPT !.escaped = TRUE]
        ELSE IF char \in BracketChars /\ Len(g.s) > 1
        THEN gen_raise(g1, "bad character", <<char>>, 0)
        ELSE IF g.expand_ranges
        THEN [g1 EXCEPT !.out = Append(g.out, <<ord(char)>>)]
        ELSE IF Len(g.s) = 1 \/ g.s[2] # "-"
        THEN [g1 EXCEPT !.out = Append(g.out, <<ord(char)>>)]
        ELSE g1

\* the branch i == 0
scan_first(g) ==
    LET char == g.s[1]
        g1 == [g EXCEPT !.i = 1, !.char = char]
    IN  IF char = "\\"
        THEN [g1 EXCEPT !.escaped = TRUE]
        ELSE IF char \in BracketChars /\ Len(g.s) > 1
        THEN gen_raise(g1, "bad character", <<char>>, 0)
        ELSE IF g.expand_ranges
        THEN [g1 EXCEPT !.out = Append(g.out, <<ord(char)>>)]
        ELSE IF Len(g.s) - 1 <= 1 \/ g.s[2] # "-"
        THEN [g1 EXCEPT !.out = Append(g.out, <<ord(char)>>)]
        ELSE g1

\* the branch s[i] == '-' without the test of line 88
scan_hyphen_unchecked(g) ==
    IF g.escaped \/ g.i = Len(g.s) - 1
    THEN [g EXCEPT !.i = g.i + 1, !.char = "-", !.out = Append(g.out, <<ord("-")>>), !.escaped = FALSE]
    ELSE LET i1 == g.i + 1
             more == s_at(g, i1) = "\\" /\ i1 < Len(g.s) - 1 /\ s_at(g, i1 + 1) \in GroupEscapedChars
             i2 == IF more THEN i1 + 1 ELSE i1
             end_char == s_at(g, i2)
             g1 == [g EXCEPT !.i = i2 + 1]
         IN  IF g.expand_ranges
             THEN [g1 EXCEPT !.out = g.out \o range_items(ord(g.char) + 1, ord(end_char))]
             ELSE [g1 EXCEPT !.out = Append(g.out, <<ord(g.char), ord(end_char)>>)]

\* the branch s[i] == '-'
scan_hyphen(g) ==
    IF g.escaped \/ g.i = Len(g.s) - 1
    THEN [g EXCEPT !.i = g.i + 1, !.char = "-", !.out = Append(g.out, <<ord("-")>>), !.escaped = FALSE]
    ELSE LET i1 == g.i + 1
             more == s_at(g, i1) = "\\" /\ i1 < Len(g.s) - 1 /\ s_at(g, i1 + 1) \in GroupEscapedChars
             i2 == IF more THEN i1 + 1 ELSE i1
             end_char == s_at(g, i2)
             g1 == [g EXCEPT !.i = i2 + 1]
         IN  IF ord(g.char) > ord(end_char)
             THEN gen_raise(g1, "bad character range", <<g.char, end_char>>, i2 - 2)
             ELSE IF g.expand_ranges
             THEN [g1 EXCEPT !.out = g.out \o range_items(ord(g.char) + 1, ord(end_char))]
             ELSE [g1 EXCEPT !.out = Append(g.out, <<ord(g.char), ord(end_char)>>)]

\* the branch s[i] in r'|.^?*+{}()'
scan_meta(g) ==
    [g EXCEPT !.i = g.i + 1, !.escaped = FALSE, !.char = s_at(g, g.i),
              !.out = Append(g.out, <<ord(s_at(g, g.i))>>)]

\* the branch s[i] in r'[]'
scan_bracket(g) ==
    IF ~g.escaped /\ Len(g.s) > 1
    THEN gen_raise([g EXCEPT !.i = g.i + 1], "bad character", <<s_at(g, g.i)>>, g.i)
    ELSE [g EXCEPT !.i = g.i + 1, !.escaped = FALSE, !.char = s_at(g, g.i),
                   !.out = Append(g.out, <<ord(s_at(g, g.i))>>)]

\* the branch s[i] == '\\'
scan_backslash(g) ==
    IF g.escaped
    THEN [g EXCEPT !.i = g.i + 1, !.escaped = FALSE, !.char = "\\", !.out = Append(g.out, <<ord("\\")>>)]
    ELSE [g EXCEPT !.i = g.i + 1, !.escaped = TRUE]

\* the final else branch of the loop without the backslash of line 117
scan_other_plain(g) ==
    [g EXCEPT !.i = g.i + 1, !.escaped = FALSE, !.char = s_at(g, g.i),
              !.out = Append(g.out, <<ord(s_at(g, g.i))>>)]

\* the final else branch of the loop
scan_other(g) ==
    LET out1 == IF g.escaped THEN Append(g.out, <<ord("\\")>>) ELSE g.out
    IN  [g EXCEPT !.i = g.i + 1, !.escaped = FALSE, !.char = s_at(g, g.i),
                  !.out = Append(out1, <<ord(s_at(g, g.i))>>)]

\* the statements after the loop
scan_end(g) ==
    [g EXCEPT !.state = "done", !.out = IF g.escaped THEN Append(g.out, <<ord("\\")>>) ELSE g.out]

\* which branch the loop takes with the frame g
branch(g) ==
    IF g.i >= Len(g.s) THEN "end"
    ELSE IF g.i = 0 THEN "first"
    ELSE IF s_at(g, g.i) = "-" THEN "hyphen"
    ELSE IF s_at(g, g.i) \in MetaChars THEN "meta"
    ELSE IF s_at(g, g.i) \in BracketChars THEN "bracket"
    ELSE IF s_at(g, g.i) = "\\" THEN "backslash"
    ELSE "other"

\* one iteration of the generator's loop
scan_step(g) ==
    CASE branch(g) = "end" -> scan_end(g)
      [] branch(g) = "first" -> scan_first(g)
      [] branch(g) = "hyphen" -> scan_hyphen(g)
      [] branch(g) = "meta" -> scan_meta(g)
      [] branch(g) = "bracket" -> scan_bracket(g)
      [] branch(g) = "backslash" -> scan_backslash(g)
      [] branch(g) = "other" -> scan_other(g)

\* the generator run to exhaustion or to the exception it raises
RECURSIVE scan_all(_)
scan_all(g) == IF g.state # "run" THEN g ELSE scan_all(scan_step(g))

parse_character_group(s, expand_ranges) == scan_all(gen_start(s, expand_ranges))

\* ---------------------------------------------------------------- iter_code_points

\* the sort key that takes x[0] of a range with reverse too
sort_key_start(x, reverse) == x[1]

\* the sort key of iter_code_points: x[1] with reverse, x[0] without, x itself for an int
sort_key(x, reverse) == IF Len(x) = 1 THEN x[1] ELSE IF reverse THEN x[2] ELSE x[1]

\* where a stable sort puts x in the sorted list l: behind every item that does not sort after it
RECURSIVE sort_position(_, _, _, _)
sort_position(l, x, reverse, pos) ==
    IF pos > Len(l) THEN pos
    ELSE IF (IF reverse THEN sort_key(l[pos], reverse) < sort_key(x, reverse)
                        ELSE sort_key(l[pos], reverse) > sort_key(x, reverse))
    THEN pos
    ELSE sort_position(l, x, reverse, pos + 1)

\* sorted(items, reverse=reverse, key=...), the first n items
RECURSIVE sorted_prefix(_, _, _)
sorted_prefix(items, reverse, n) ==
    IF n = 0 THEN <<>>
    ELSE LET l == sorted_prefix(items, reverse, n - 1)
         IN  list_insert(l, sort_position(l, items[n], reverse, 1), items[n])

sorted(items, reverse) == sorted_prefix(items, reverse, Len(items))

\* what is yielded for the pending prev_start_cp, prev_end_cp
merged_item(prev) == IF prev[2] > prev[1] THEN <<prev[1], prev[2]>> ELSE <<prev[1]>>

\* the loop over the sorted items from position pos, prev being <<>> for None, and its else clause
RECURSIVE merge_loop(_, _, _, _)
merge_loop(items, reverse, pos, prev) ==
    IF pos > Len(items)
    THEN IF prev = <<>> THEN <<>> ELSE <<merged_item(prev)>>
    ELSE LET start_cp == start_of(items[pos])
             end_cp == end_of(items[pos])
         IN  IF prev = <<>>
             THEN merge_loop(items, reverse, pos + 1, <<start_cp, end_cp>>)
             ELSE IF reverse /\ prev[1] - 1 <= end_cp
             THEN merge_loop(items, reverse, pos + 1, <<Min(prev[1], start_cp), prev[2]>>)
             ELSE IF ~reverse /\ prev[2] + 1 >= start_cp
             THEN merge_loop(items, reverse, pos + 1, <<prev[1], Max(prev[2], end_cp)>>)
             ELSE <<merged_item(prev)>> \o merge_loop(items, reverse, pos + 1, <<start_cp, end_cp>>)

iter_code_points(items, reverse) == merge_loop(sorted(items, reverse), reverse, 1, <<>>)

\* ---------------------------------------------------------------- update, difference_update, __init__

Outcome(l, e) == [code_points |-> l, err |-> e]

\* for cp in items: self.add(cp), from position pos on; add raises on a value outside the domain
RECURSIVE add_each(_, _, _)
add_each(l, items, pos) ==
    IF pos > Len(items) THEN Outcome(l, "")
    ELSE IF ~valid_value(items[pos]) THEN Outcome(l, domain_error(items[pos]))
    ELSE add_each(add(l, items[pos]), items, pos + 1)

\* for cp in items: self.discard(cp)
RECURSIVE discard_each(_, _, _)
discard_each(l, items, pos) ==
    IF pos > Len(items) THEN Outcome(l, "")
    ELSE IF ~valid_value(items[pos]) THEN Outcome(l, domain_error(items[pos]))
    ELSE discard_each(discard(l, items[pos]), items, pos + 1)

\* update(values) for an iterable of code points and ranges
update(l, values) == add_each(l, iter_code_points(values, TRUE), 1)

\* update(values) for a str that adds each token as soon as the parser yields it
update_str_partial(l, s) ==
    LET g == parse_character_group(s, FALSE)
    IN  IF g.state = "error"
        THEN Outcome(add_each(l, reversed(g.out), 1).code_points, "XMLSchemaRegexError")
        ELSE add_each(l, iter_code_points(g.out, TRUE), 1)

\* update(values) for a str: sorted() drains the parser before the first add
update_str(l, s) ==
    LET g == parse_character_group(s, FALSE)
    IN  IF g.state = "error" THEN Outcome(l, "XMLSchemaRegexError")
        ELSE add_each(l, iter_code_points(g.out, TRUE), 1)

difference_update(l, values) == discard_each(l, iter_code_points(values, TRUE), 1)

difference_update_str(l, s) ==
    LET g == parse_character_group(s, FALSE)
    IN  IF g.state = "error" THEN Outcome(l, "XMLSchemaRegexError")
        ELSE discard_each(l, iter_code_points(g.out, TRUE), 1)

\* UnicodeSubset(values) for values that is not a UnicodeSubset
UnicodeSubset(values) == update(<<>>, values)

\* UnicodeSubset(s) for a str
UnicodeSubset_str(s) == update_str(<<>>, s)

\* ---------------------------------------------------------------- complement, __eq__

\* the gap of two code points yielded as its first code point only
gap_items_short(last, start_cp, diff) ==
    IF diff > 2 THEN <<<<last, start_cp - 1>>>>
    ELSE IF diff >= 1 THEN <<<<last>>>>
    ELSE <<>>

\* what complement yields for a gap of diff code points that starts at last
gap_items(last, start_cp, diff) ==
    IF diff > 2 THEN <<<<last, start_cp - 1>>>>
    ELSE IF diff = 2 THEN <<<<last>>, <<last + 1>>>>
    ELSE IF diff = 1 THEN <<<<last>>>>
    ELSE <<>>

\* the loop of complement from position pos, and the statements after it:
\* the items yielded and the exception that ends the generator, "" for none
RECURSIVE complement_loop(_, _, _)
complement_loop(l, pos, last) ==
    IF pos > Len(l) \/ last > maxunicode
    THEN [out |-> IF last = maxunicode THEN <<<<maxunicode>>>>
                  ELSE IF last < maxunicode THEN <<<<last, maxunicode>>>>
                  ELSE <<>>,
          err |-> ""]
    ELSE LET start_cp == start_of(l[pos])
             end_cp == end_of(l[pos])
             diff == start_cp - last
         IN  IF diff < 0
             THEN [out |-> <<>>, err |-> "ValueError"]
             ELSE LET rest == complement_loop(l, pos + 1, end_cp + 1)
                  IN  [out |-> gap_items(last, start_cp, diff) \o rest.out, err |-> rest.err]

complement(l) == complement_loop(l, 1, 0)

\* __eq__ of two UnicodeSubset instances
eq(l, m) == l = m

\* ---------------------------------------------------------------- frames of the calls not under way

\* no build_unicode_categories call is under way
NoBuild ==
    [state |-> "none", unicodedata |-> <<>>, cache |-> [type |-> "IOError", items |-> <<>>],
     categories |-> [type |-> "dict", items |-> <<>>], loads |-> 0, scans |-> 0,
     result |-> <<>>, error |-> ""]

\* no iter_xsd_components generator is under way
NoComponents ==
    [state |-> "none", elem |-> <<>>, start |-> 0, counter |-> 0, pos |-> 0, out |-> <<>>, error |-> ""]

\* each of the three sets holds a list object of its own; made_by names the
\* call that returned the third set, "" when no call did
OwnLists == [code_points |-> 1, other |-> 2, third |-> 3, made_by |-> ""]

\* ---------------------------------------------------------------- calls on the set under test

\* values handed to add and discard: every valid one and some outside the domain
CallValues == Items(0, maxunicode) \cup {<<0 - 1>>, <<maxunicode + 1>>, <<1, 0>>, <<0 - 1, 0>>, <<0, maxunicode + 1>>}

Add(value) ==
    /\ op' = "add" /\ arg' = value /\ pre' = code_points /\ ret' = <<>>
    /\ IF valid_value(value)
       THEN code_points' = add(code_points, value) /\ err' = ""
       ELSE code_points' = code_points /\ err' = domain_error(value)
    /\ UNCHANGED <<maxunicode, ids, build, components, other, third, gen>>

Discard(value) ==
    /\ op' = "discard" /\ arg' = value /\ pre' = code_points /\ ret' = <<>>
    /\ IF valid_value(value)
       THEN code_points' = discard(code_points, value) /\ err' = ""
       ELSE code_points' = code_points /\ err' = domain_error(value)
    /\ UNCHANGED <<maxunicode, ids, build, components, other, third, gen>>

Contains(code_point) ==
    /\ op' = "contains" /\ arg' = <<code_point>> /\ pre' = code_points
    /\ ret' = <<contains(code_points, code_point)>> /\ err' = ""
    /\ UNCHANGED <<maxunicode, ids, build, components, code_points, other, third, gen>>

Iter ==
    /\ op' = "iter" /\ arg' = <<>> /\ pre' = code_points
    /\ ret' = iter(code_points) /\ err' = ""
    /\ UNCHANGED <<maxunicode, ids, build, components, code_points, other, third, gen>>

Complement ==
    /\ op' = "complement" /\ arg' = <<>> /\ pre' = code_points
    /\ ret' = complement(code_points).out /\ err' = complement(code_points).err
    /\ UNCHANGED <<maxunicode, ids, build, components, code_points, other, third, gen>>

Init ==
    /\ ids = OwnLists
    /\ maxunicode = MaxCodePoint
    /\ code_points = <<>> /\ other = <<>> /\ third = <<>>
    /\ op = "init" /\ arg = <<>> /\ pre = <<>> /\ ret = <<>> /\ err = ""
    /\ gen = NoGen /\ build = NoBuild /\ components = NoComponents

Next ==
    \/ \E value \in CallValues : Add(value)
    \/ \E value \in CallValues : Discard(value)
    \/ \E code_point \in 0..maxunicode : Contains(code_point)
    \/ Iter
    \/ Complement

Spec == Init /\ [][Next]_vars

\* ---------------------------------------------------------------- properties of Spec

\* the code points a value or item covers
covers(value, cp) == start_of(value) <= cp /\ cp <= end_of(value)

\* C1: after any sequence of add and discard calls the atoms are strictly
\* ascending and consecutive atoms A, B satisfy hiA + 1 < loB.
C1_AtomsSeparated ==
    \A k \in 1..(Len(code_points) - 1) :
        end_of(code_points[k]) + 1 < start_of(code_points[k + 1])

\* C2: after add(v) a code point is contained iff it was contained before
\* the call or lies inside v.
C2_AddInsertsWholeValue ==
    (op = "add" /\ err = "") =>
        \A cp \in 0..maxunicode :
            contains(code_points, cp) <=> (contains(pre, cp) \/ covers(arg, cp))

\* C6: the set built from complement() of the set built from S.complement()
\* is equal to S.
C6_ComplementInvolution ==
    op = "complement" =>
        LET S1 == UnicodeSubset(ret).code_points
            S2 == UnicodeSubset(complement(S1).out).code_points
        IN  err = "" /\ eq(S2, code_points)

\* C8: contains(cp) is true iff cp appears in the ascending iteration of the
\* same set, for every code point of the build and every reachable set.
C8_MembershipIterationAgree ==
    /\ \A cp \in 0..maxunicode :
           contains(code_points, cp) <=> (\E k \in 1..Len(iter(code_points)) : iter(code_points)[k] = cp)
    /\ op = "contains" => ret = <<\E k \in 1..Len(iter(pre)) : iter(pre)[k] = arg[1]>>
    /\ op = "iter" => \A cp \in 0..maxunicode : contains(pre, cp) <=> (\E k \in 1..Len(ret) : ret[k] = cp)

\* a membership test answered TRUE inside a range atom of a set that also
\* holds a singleton atom
C8_Witness ==
    /\ op = "contains" /\ ret = <<TRUE>>
    /\ \E k \in 1..Len(code_points) :
           Len(code_points[k]) = 2 /\ code_points[k][1] < arg[1] /\ arg[1] <= code_points[k][2]
    /\ \E k \in 1..Len(code_points) : Len(code_points[k]) = 1

\* C17: add(r) followed by discard(r) on an empty set leaves the set with no
\* item, for every valid code point or range r.
C17_AddDiscardRoundTrip ==
    [][(op = "add" /\ pre = <<>> /\ err = "" /\ op' = "discard" /\ arg' = arg) =>
           code_points' = <<>>]_vars

\* a range added to the empty set has been discarded again
C17_Witness ==
    /\ op = "discard" /\ Len(arg) = 2 /\ arg[1] < arg[2] /\ pre = <<arg>> /\ code_points = <<>>

\* C20: complement() yields items in ascending order, none reaching into the
\* next, that cover exactly the code points of 0..maxunicode the set does not
\* hold, the gap before the first item and the gap after the last included,
\* and yields nothing for a set that covers the whole range.
C20_ComplementCoversTheRest ==
    op = "complement" =>
        /\ err = ""
        /\ \A k \in 1..Len(ret) :
               /\ 0 <= start_of(ret[k]) /\ start_of(ret[k]) <= end_of(ret[k]) /\ end_of(ret[k]) <= maxunicode
               /\ k > 1 => end_of(ret[k - 1]) < start_of(ret[k])
        /\ \A cp \in 0..maxunicode :
               (\E k \in 1..Len(ret) : covers(ret[k], cp)) <=> ~contains(pre, cp)
        /\ (\A cp \in 0..maxunicode : contains(pre, cp)) => ret = <<>>

\* the complement of a set that leaves a gap before its first item, a gap
\* between its two items and a gap after its last item
C20_Witness ==
    /\ op = "complement" /\ Len(pre) = 2
    /\ start_of(pre[1]) > 0 /\ end_of(pre[2]) < maxunicode
    /\ start_of(pre[2]) - end_of(pre[1]) = 2
    /\ Len(ret) = 3

\* C14: add and discard raise ValueError for a code point outside
\* 0..maxunicode and for a range with an endpoint outside it or with lo > hi,
\* and the list is then as it was before the call.
C14_DomainErrorIsValueError ==
    (op \in {"add", "discard"} /\ ~valid_value(arg)) =>
        (err = "ValueError" /\ code_points = pre)

\* ---------------------------------------------------------------- SpecText: a full build fed with text

\* sys.maxunicode of a full build
UCS4_MAXUNICODE == 1114111

\* the values and character group bodies the calls of SpecText are made with
TextValues == Items(ord("a"), ord("f"))
TextBodies == {<<"a", "-", "f">>, <<"c", "-", "d">>, <<"a", "-", "c">>, <<"e", "-", "f">>,
               <<"b">>, <<"c", "e">>, <<"f", "-", "a">>, <<"a", "f", "-", "a">>}

UpdateStr(s) ==
    /\ op' = "update" /\ arg' = s /\ pre' = code_points /\ ret' = <<>>
    /\ code_points' = update_str(code_points, s).code_points
    /\ err' = update_str(code_points, s).err
    /\ UNCHANGED <<maxunicode, ids, build, components, other, third, gen>>

DifferenceUpdateStr(s) ==
    /\ op' = "difference_update" /\ arg' = s /\ pre' = code_points /\ ret' = <<>>
    /\ code_points' = difference_update_str(code_points, s).code_points
    /\ err' = difference_update_str(code_points, s).err
    /\ UNCHANGED <<maxunicode, ids, build, components, other, third, gen>>

InitText ==
    /\ ids = OwnLists
    /\ maxunicode = UCS4_MAXUNICODE
    /\ code_points = <<>> /\ other = <<>> /\ third = <<>>
    /\ op = "init" /\ arg = <<>> /\ pre = <<>> /\ ret = <<>> /\ err = ""
    /\ gen = NoGen /\ build = NoBuild /\ components = NoComponents

NextText ==
    \/ \E value \in TextValues : Add(value)
    \/ \E value \in TextValues : Discard(value)
    \/ \E s \in TextBodies : UpdateStr(s)
    \/ \E s \in TextBodies : DifferenceUpdateStr(s)

SpecText == InitText /\ [][NextText]_vars

\* the code points the formulas of SpecText look at: the letters, their two
\* neighbours and the two ends of the build
TextWindow == (ord("a") - 1)..(ord("f") + 1) \cup {0, maxunicode}

\* the items of l inside value, and those that strictly enclose it
covered_items(l, value) ==
    {k \in 1..Len(l) : start_of(value) <= start_of(l[k]) /\ end_of(l[k]) <= end_of(value)}
enclosing_items(l, value) ==
    {k \in 1..Len(l) : start_of(l[k]) < start_of(value) /\ end_of(value) < end_of(l[k])}

\* C3: after discard(v) a code point is contained iff it was contained before
\* and lies outside v; an item v covers is deleted, an item that strictly
\* encloses v becomes two, every other item stays one; the same holds of
\* difference_update with a character group, and the set built from "a-f"
\* holds exactly a, b, e, f after "c-d" is removed.
C3_DiscardRemovesExactly ==
    /\ (op = "discard" /\ err = "") =>
           /\ \A cp \in TextWindow :
                  contains(code_points, cp) <=> (contains(pre, cp) /\ ~covers(arg, cp))
           /\ Len(code_points) = Len(pre) - Cardinality(covered_items(pre, arg))
                                          + Cardinality(enclosing_items(pre, arg))
    /\ (op = "difference_update" /\ err = "") =>
           LET tokens == parse_character_group(arg, FALSE).out
           IN  \A cp \in TextWindow :
                   contains(code_points, cp) <=>
                       (contains(pre, cp) /\ \A k \in 1..Len(tokens) : ~covers(tokens[k], cp))
    /\ (op = "difference_update" /\ arg = <<"c", "-", "d">>
            /\ pre = UnicodeSubset_str(<<"a", "-", "f">>).code_points) =>
           /\ err = ""
           /\ iter(code_points) = <<ord("a"), ord("b"), ord("e"), ord("f")>>

\* "c-d" removed from the set built from "a-f": the range a-f is split in two
C3_Witness ==
    /\ op = "difference_update" /\ arg = <<"c", "-", "d">>
    /\ pre = <<<<ord("a"), ord("f")>>>>
    /\ Len(code_points) = 2

\* ---------------------------------------------------------------- SpecBuild: construction and rendering

\* the code points the collections of SpecBuild are made of
BuildCodePoints == {ord("-"), ord("\\"), ord("]"), ord("^")}
BuildItems == {<<c>> : c \in BuildCodePoints} \cup {ab \in BuildCodePoints \X BuildCodePoints : ab[1] <= ab[2]}

\* the sequences over S of length at most n
RECURSIVE SeqsUpTo(_, _)
SeqsUpTo(S, n) ==
    IF n = 0 THEN {<<>>}
    ELSE LET shorter == SeqsUpTo(S, n - 1)
         IN  shorter \cup {Append(q, x) : q \in {r \in shorter : Len(r) = n - 1}, x \in S}

\* UnicodeSubset(values) for the collection drawn by InitBuild
Construct ==
    /\ op = "new"
    /\ op' = "init" /\ pre' = <<>> /\ ret' = <<>>
    /\ code_points' = UnicodeSubset(arg).code_points
    /\ err' = UnicodeSubset(arg).err
    /\ UNCHANGED <<maxunicode, ids, build, components, arg, other, third, gen>>

\* str(self)
ToUnicode ==
    /\ op = "init"
    /\ op' = "str" /\ arg' = <<>> /\ pre' = code_points
    /\ ret' = to_unicode(code_points) /\ err' = ""
    /\ UNCHANGED <<maxunicode, ids, build, components, code_points, other, third, gen>>

InitBuild ==
    /\ ids = OwnLists
    /\ maxunicode = UCS4_MAXUNICODE
    /\ code_points = <<>> /\ other = <<>> /\ third = <<>>
    /\ op = "new" /\ arg \in SeqsUpTo(BuildItems, MaxSourceLen)
    /\ pre = <<>> /\ ret = <<>> /\ err = ""
    /\ gen = NoGen /\ build = NoBuild /\ components = NoComponents

NextBuild ==
    \/ Construct
    \/ ToUnicode

SpecBuild == InitBuild /\ [][NextBuild]_vars

\* the code points the formulas of SpecBuild look at
BuildWindow == (ord("-") - 1)..(ord("^") + 1) \cup {0, maxunicode}

\* the items are coalesced: ascending, a gap between neighbours, a single code
\* point stored as an int
coalesced(l) ==
    /\ \A k \in 1..Len(l) : Len(l[k]) = 2 => l[k][1] < l[k][2]
    /\ \A k \in 1..(Len(l) - 1) : end_of(l[k]) + 1 < start_of(l[k + 1])

\* values reordered by the permutation p of its indexes
reordered(values, p) == [k \in 1..Len(values) |-> values[p[k]]]

\* C4: update on an empty set gives the same atoms for every ordering of the
\* collection, and they cover exactly the union of its elements, coalesced.
C4_UpdateOrderIndependent ==
    op = "init" =>
        /\ err = ""
        /\ \A p \in Permutations(1..Len(arg)) :
               update(<<>>, reordered(arg, p)) = [code_points |-> code_points, err |-> ""]
        /\ \A cp \in BuildWindow :
               contains(code_points, cp) <=> \E k \in 1..Len(arg) : covers(arg[k], cp)
        /\ coalesced(code_points)

\* a collection of three elements, given with the lowest first, of which the
\* last joins the first two into one atom
C4_Witness ==
    /\ op = "init" /\ Len(arg) = 3 /\ Len(code_points) = 1
    /\ end_of(arg[1]) + 1 < start_of(arg[2])
    /\ start_of(arg[3]) <= end_of(arg[1]) + 1 /\ start_of(arg[2]) <= end_of(arg[3]) + 1

\* C7: rendering a set and parsing the text back into a new set never fails
\* and gives the same atom sequence.
C7_RenderRoundTrip ==
    op = "str" =>
        /\ UnicodeSubset_str(ret).err = ""
        /\ UnicodeSubset_str(ret).code_points = code_points

\* ---------------------------------------------------------------- SpecUnion: three sets and |=

\* __ior__ with a UnicodeSubset: add every item of reversed(other._code_points)
ior(l, m) == add_each(l, reversed(m), 1).code_points

AddTo(name, value) ==
    /\ op' = "add" /\ arg' = <<>> /\ pre' = <<>> /\ ret' = <<>> /\ err' = ""
    /\ code_points' = IF name = "code_points" THEN add(code_points, value) ELSE code_points
    /\ other' = IF name = "other" THEN add(other, value) ELSE other
    /\ third' = IF name = "third" THEN add(third, value) ELSE third
    /\ UNCHANGED <<maxunicode, ids, build, components, gen>>

DiscardFrom(name, value) ==
    /\ op' = "discard" /\ arg' = <<>> /\ pre' = <<>> /\ ret' = <<>> /\ err' = ""
    /\ code_points' = IF name = "code_points" THEN discard(code_points, value) ELSE code_points
    /\ other' = IF name = "other" THEN discard(other, value) ELSE other
    /\ third' = IF name = "third" THEN discard(third, value) ELSE third
    /\ UNCHANGED <<maxunicode, ids, build, components, gen>>

\* self |= other, with other left as it is
Ior ==
    /\ op' = "ior" /\ arg' = <<>> /\ pre' = <<>> /\ ret' = <<>> /\ err' = ""
    /\ code_points' = ior(code_points, other)
    /\ UNCHANGED <<maxunicode, ids, build, components, other, third, gen>>

InitUnion ==
    /\ ids = OwnLists
    /\ maxunicode = MaxUnionCodePoint
    /\ code_points = <<>> /\ other = <<>> /\ third = <<>>
    /\ op = "init" /\ arg = <<>> /\ pre = <<>> /\ ret = <<>> /\ err = ""
    /\ gen = NoGen /\ build = NoBuild /\ components = NoComponents

NextUnion ==
    \/ \E name \in {"code_points", "other", "third"}, value \in Items(0, maxunicode) : AddTo(name, value)
    \/ \E name \in {"code_points", "other", "third"}, value \in Items(0, maxunicode) : DiscardFrom(name, value)
    \/ Ior

SpecUnion == InitUnion /\ [][NextUnion]_vars

\* C5: A |= B equals B |= A, and (A | B) | C equals A | (B | C), by the
\* sets' own equality.
C5_UnionCommutesAssociates ==
    /\ eq(ior(code_points, other), ior(other, code_points))
    /\ eq(ior(ior(code_points, other), third), ior(code_points, ior(other, third)))

\* ---------------------------------------------------------------- SpecAlgebra: two sets and -, &=, ^=

\* copy(): a new UnicodeSubset built from the list of this one
copy(l) == UnicodeSubset(l).code_points

\* __isub__ with a UnicodeSubset: discard every item of reversed(other._code_points)
isub(l, m) == discard_each(l, reversed(m), 1).code_points

\* __sub__ that forgets the __isub__
sub_keeps_all(l, m) == copy(l)

\* __sub__: the copy less other
sub(l, m) == isub(copy(l), m)

\* the code points an iteration yields, as the values handed to add and discard
as_values(cps) == [k \in 1..Len(cps) |-> <<cps[k]>>]

\* __iand__ that discards the code points of other
iand_discards_other(l, m) == discard_each(l, as_values(iter(m)), 1).code_points

\* __iand__: discard every code point the iteration of self - other yields
iand(l, m) == discard_each(l, as_values(iter(sub(l, m))), 1).code_points

\* clear()
clear(l) == <<>>

\* the loop of __ixor__ over the code points cps from position pos on
RECURSIVE ixor_loop(_, _, _)
ixor_loop(l, cps, pos) ==
    IF pos > Len(cps) THEN l
    ELSE IF contains(l, cps[pos])
    THEN ixor_loop(discard(l, <<cps[pos]>>), cps, pos + 1)
    ELSE ixor_loop(add(l, <<cps[pos]>>), cps, pos + 1)

\* __ixor__ that adds every code point of other
ixor_adds(l, m) == add_each(l, as_values(iter(m)), 1).code_points

\* __ixor__ with another UnicodeSubset
ixor(l, m) == ixor_loop(l, iter(m), 1)

\* add and discard on one of the two sets; a difference made before is dropped
AlgebraAdd(name, value) ==
    /\ op' = "add" /\ arg' = <<>> /\ pre' = <<>> /\ ret' = <<>> /\ err' = ""
    /\ code_points' = IF name = "code_points" THEN add(code_points, value) ELSE code_points
    /\ other' = IF name = "other" THEN add(other, value) ELSE other
    /\ third' = <<>>
    /\ UNCHANGED <<maxunicode, ids, build, components, gen>>

AlgebraDiscard(name, value) ==
    /\ op' = "discard" /\ arg' = <<>> /\ pre' = <<>> /\ ret' = <<>> /\ err' = ""
    /\ code_points' = IF name = "code_points" THEN discard(code_points, value) ELSE code_points
    /\ other' = IF name = "other" THEN discard(other, value) ELSE other
    /\ third' = <<>>
    /\ UNCHANGED <<maxunicode, ids, build, components, gen>>

\* third = self - other
Sub ==
    /\ op' = "sub" /\ arg' = other /\ pre' = code_points /\ ret' = <<>> /\ err' = ""
    /\ third' = sub(code_points, other)
    /\ UNCHANGED <<maxunicode, ids, build, components, code_points, other, gen>>

\* third &= other, for the difference just made
IandDifference ==
    /\ op = "sub"
    /\ op' = "sub_iand" /\ ret' = third /\ err' = ""
    /\ third' = iand(third, other)
    /\ UNCHANGED <<maxunicode, ids, build, components, code_points, other, arg, pre, gen>>

\* self &= other
Iand ==
    /\ op' = "iand" /\ arg' = other /\ pre' = code_points /\ ret' = <<>> /\ err' = ""
    /\ code_points' = iand(code_points, other)
    /\ third' = <<>>
    /\ UNCHANGED <<maxunicode, ids, build, components, other, gen>>

\* self ^= other for another object
Ixor ==
    /\ op' = "ixor" /\ arg' = other /\ pre' = code_points /\ ret' = <<>> /\ err' = ""
    /\ code_points' = ixor(code_points, other)
    /\ third' = <<>>
    /\ UNCHANGED <<maxunicode, ids, build, components, other, gen>>

\* self ^= self
IxorSelf ==
    /\ op' = "ixor_self" /\ arg' = code_points /\ pre' = code_points /\ ret' = <<>> /\ err' = ""
    /\ code_points' = clear(code_points)
    /\ third' = <<>>
    /\ UNCHANGED <<maxunicode, ids, build, components, other, gen>>

InitAlgebra ==
    /\ ids = OwnLists
    /\ maxunicode = MaxUnionCodePoint
    /\ code_points = <<>> /\ other = <<>> /\ third = <<>>
    /\ op = "init" /\ arg = <<>> /\ pre = <<>> /\ ret = <<>> /\ err = ""
    /\ gen = NoGen /\ build = NoBuild /\ components = NoComponents

NextAlgebra ==
    \/ \E name \in {"code_points", "other"}, value \in Items(0, maxunicode) : AlgebraAdd(name, value)
    \/ \E name \in {"code_points", "other"}, value \in Items(0, maxunicode) : AlgebraDiscard(name, value)
    \/ Sub
    \/ IandDifference
    \/ Iand
    \/ Ixor
    \/ IxorSelf

SpecAlgebra == InitAlgebra /\ [][NextAlgebra]_vars

\* C15: A - B intersected with B is the empty set.
C15_DifferenceMeetsNothing ==
    op = "sub_iand" => third = <<>>

\* a difference that kept a range of A was intersected with a B that is not empty
C15_Witness ==
    /\ op = "sub_iand" /\ third = <<>>
    /\ other # <<>> /\ \E k \in 1..Len(ret) : Len(ret[k]) = 2
    /\ \E cp \in 0..maxunicode : contains(pre, cp) /\ contains(other, cp)

\* the lists l and m hold the same code points
same_content(l, m) == \A cp \in 0..maxunicode : contains(l, cp) <=> contains(m, cp)

\* C16: A ^= A leaves A empty, when the operand is A itself and when it is
\* another set with the same content.
C16_XorWithSelfEmpties ==
    /\ op = "ixor_self" => code_points = <<>>
    /\ (op = "ixor" /\ same_content(pre, other)) => code_points = <<>>

\* a set of a range and a code point was xor-ed with another object that
\* holds the same code points in a list of another shape
C16_Witness ==
    /\ op = "ixor" /\ same_content(pre, other) /\ pre # other
    /\ Len(pre) = 2 /\ code_points = <<>>

\* C19: A &= B behaves as A -= (A - B): afterwards a code point is in A iff
\* it was in A before and is in B, and B is as it was.
C19_IntersectionUpdate ==
    op = "iand" =>
        /\ \A cp \in 0..maxunicode :
               contains(code_points, cp) <=> (contains(pre, cp) /\ contains(other, cp))
        /\ code_points = isub(pre, sub(pre, other))
        /\ other = arg

\* an intersection that kept a part of A and dropped another
C19_Witness ==
    /\ op = "iand" /\ code_points # <<>> /\ code_points # pre
    /\ \E cp \in 0..maxunicode : contains(pre, cp) /\ ~contains(other, cp)
    /\ \E cp \in 0..maxunicode : contains(other, cp) /\ ~contains(pre, cp)

\* ---------------------------------------------------------------- SpecParse: the generator step by step

\* the characters the bodies of SpecParse are made of
ParseAlphabet == {"+", "-", "A", "[", "\\", "]", "a"}

\* the bodies with z that SpecParse parses besides
ParseScenarios == {<<"a", "-", "z">>, <<"-", "a", "z">>, <<"z", "-", "a">>, <<"a", "\\", "-", "z">>}

\* the variables the generator does not touch
rest == <<maxunicode, ids, build, components, code_points, other, third, op, arg, pre, ret, err>>

\* one iteration of the loop, by the branch it takes
ScanFirst == gen.state = "run" /\ branch(gen) = "first" /\ gen' = scan_first(gen) /\ UNCHANGED rest
ScanHyphen == gen.state = "run" /\ branch(gen) = "hyphen" /\ gen' = scan_hyphen(gen) /\ UNCHANGED rest
ScanMeta == gen.state = "run" /\ branch(gen) = "meta" /\ gen' = scan_meta(gen) /\ UNCHANGED rest
ScanBracket == gen.state = "run" /\ branch(gen) = "bracket" /\ gen' = scan_bracket(gen) /\ UNCHANGED rest
ScanBackslash == gen.state = "run" /\ branch(gen) = "backslash" /\ gen' = scan_backslash(gen) /\ UNCHANGED rest
ScanOther == gen.state = "run" /\ branch(gen) = "other" /\ gen' = scan_other(gen) /\ UNCHANGED rest
ScanEnd == gen.state = "run" /\ branch(gen) = "end" /\ gen' = scan_end(gen) /\ UNCHANGED rest

InitParse ==
    /\ ids = OwnLists
    /\ maxunicode = UCS4_MAXUNICODE
    /\ code_points = <<>> /\ other = <<>> /\ third = <<>>
    /\ op = "parse" /\ arg = <<>> /\ pre = <<>> /\ ret = <<>> /\ err = ""
    /\ \E s \in SeqsUpTo(ParseAlphabet, MaxBodyLen) \cup ParseScenarios, expand_ranges \in BOOLEAN :
           gen = gen_start(s, expand_ranges)
    /\ build = NoBuild /\ components = NoComponents

NextParse ==
    \/ ScanFirst
    \/ ScanHyphen
    \/ ScanMeta
    \/ ScanBracket
    \/ ScanBackslash
    \/ ScanOther
    \/ ScanEnd

SpecParse == InitParse /\ [][NextParse]_vars

\* the number of backslashes that directly precede the 1-based position k of s
RECURSIVE backslashes_before(_, _)
backslashes_before(s, k) ==
    IF k > 1 /\ s[k - 1] = "\\" THEN 1 + backslashes_before(s, k - 1) ELSE 0

\* the character at the 1-based position k is not escaped by a backslash
unescaped_at(s, k) == backslashes_before(s, k) % 2 = 0

\* the step from gen to gen' looks at a hyphen
at_hyphen == gen.state = "run" /\ gen.i < Len(gen.s) /\ s_at(gen, gen.i) = "-"

\* the hyphen the step looks at is at position 0, at the final position or
\* directly after an escaping backslash
literal_hyphen == gen.i = 0 \/ gen.i = Len(gen.s) - 1 \/ gen.escaped

\* the step takes the hyphen as a character: code point 45 becomes the current
\* character, nothing behind it is consumed, and 45 is emitted at once, or
\* held back at position 0 of a lazy parse when a range specifier follows
taken_as_literal ==
    /\ gen'.state = "run" /\ gen'.i = gen.i + 1 /\ gen'.char = "-" /\ ~gen'.escaped
    /\ \/ gen'.out = Append(gen.out, <<45>>)
       \/ /\ gen.i = 0 /\ ~gen.expand_ranges /\ Len(gen.s) > 2 /\ gen.s[2] = "-"
          /\ gen'.out = gen.out

\* the step takes the hyphen as a range specifier between the current
\* character and the next one, which is the escaped one when the next one is
\* a backslash before one of -|.^?*+{}()[]
taken_as_range ==
    LET esc == /\ s_at(gen, gen.i + 1) = "\\" /\ gen.i + 2 < Len(gen.s)
               /\ s_at(gen, gen.i + 2) \in GroupEscapedChars
        e == IF esc THEN gen.i + 2 ELSE gen.i + 1
        lo == ord(gen.char)
        hi == ord(s_at(gen, e))
    IN  /\ gen'.i = e + 1 /\ gen'.char = gen.char
        /\ IF lo > hi
           THEN gen'.state = "error" /\ gen'.error.kind = "bad character range" /\ gen'.out = gen.out
           ELSE /\ gen'.state = "run"
                /\ IF gen.expand_ranges
                   THEN gen'.out = gen.out \o [k \in 1..(hi - lo) |-> <<lo + k>>]
                   ELSE gen'.out = Append(gen.out, <<lo, hi>>)

\* the Escaped state is only ever entered by the backslash directly before
\* the position the scanner looks at next
escaped_by_backslash == gen.escaped => (gen.i >= 1 /\ s_at(gen, gen.i - 1) = "\\")

\* no step consumes, as the end of a range, an unescaped hyphen that is
\* neither at the start nor at the end of the body
no_hyphen_skipped ==
    (gen.state = "run" /\ gen'.state = "run") =>
        \A k \in (gen.i + 1)..(gen'.i - 1) :
            ~(gen.s[k + 1] = "-" /\ k < Len(gen.s) - 1 /\ unescaped_at(gen.s, k + 1))

\* C9: every unescaped hyphen that is neither at the start nor at the end of
\* the body is interpreted as a range specifier between the current character
\* and the next one; a hyphen at position 0, at the final position or directly
\* after an escaping backslash is a literal hyphen (code point 45).
C9_HyphenInterpretation ==
    [][/\ at_hyphen => IF literal_hyphen THEN taken_as_literal ELSE taken_as_range
       /\ escaped_by_backslash
       /\ no_hyphen_skipped]_vars

\* the 1-based positions of s that hold a bracket no backslash escapes
unescaped_brackets(s) == {k \in 1..Len(s) : s[k] \in BracketChars /\ unescaped_at(s, k)}

\* C10: in a body of length greater than 1 any '[' or ']' that no backslash
\* escapes makes parsing fail, the error naming the character and its
\* position; a body that is the single character '[' or ']' yields its code
\* point as the only token.
C10_UnescapedBracketFails ==
    /\ (gen.state = "done" /\ Len(gen.s) > 1) => unescaped_brackets(gen.s) = {}
    /\ (gen.state = "error" /\ gen.error.kind = "bad character") =>
           /\ gen.error.position + 1 \in unescaped_brackets(gen.s)
           /\ gen.error.chars = <<gen.s[gen.error.position + 1]>>
    /\ (gen.state = "done" /\ Len(gen.s) = 1 /\ gen.s[1] \in BracketChars) =>
           gen.out = <<<<ord(gen.s[1])>>>>

\* ---------------------------------------------------------------- build_unicode_categories

\* the code points 0..MaxScanPoint have a category of their own, the ones
\* above have the category of MaxScanPoint
MaxScanPoint == 3

\* the categories unicodedata gives to the code points of the model
ScanCategories == {"Cc", "Lu", "Lo", "Nd"}

\* the general categories of lines 529-536 and what each is the sum of
GeneralCategories == {"C", "L", "M", "N", "P", "S", "Z"}

general_parts(name) ==
    CASE name = "C" -> <<"Cc", "Cf", "Cs", "Co", "Cn">>
      [] name = "L" -> <<"Lu", "Ll", "Lt", "Lm", "Lo">>
      [] name = "M" -> <<"Mn", "Mc", "Me">>
      [] name = "N" -> <<"Nd", "Nl", "No">>
      [] name = "P" -> <<"Pc", "Pd", "Ps", "Pe", "Pi", "Pf", "Po">>
      [] name = "S" -> <<"Sm", "Sc", "Sk", "So">>
      [] name = "Z" -> <<"Zs", "Zl", "Zp">>

\* the two-letter categories the seven lines read
TwoLetterCategories ==
    UNION {{general_parts(g)[k] : k \in 1..Len(general_parts(g))} : g \in GeneralCategories}

\* unicodedata.category(unicode_chr(cp)) with the library data u
category(u, cp) == u[Min(cp, MaxScanPoint) + 1]

\* categories[k] of a defaultdict(list), and of a dict that has the key
dict_get(categories, k) == IF k \in DOMAIN categories.items THEN categories.items[k] ELSE <<>>

\* append_code_points with a run of two code points stored as its first code point
append_code_points_short(categories, last_category, start_cp, cp) ==
    LET diff == cp - start_cp
        new == IF diff = 1 \/ diff = 2 THEN <<<<start_cp>>>>
               ELSE <<<<start_cp, cp - 1>>>>
    IN  [categories EXCEPT !.items =
            (last_category :> (dict_get(categories, last_category) \o new)) @@ categories.items]

\* the nested function append_code_points
append_code_points(categories, last_category, start_cp, cp) ==
    LET diff == cp - start_cp
        new == IF diff = 1 THEN <<<<start_cp>>>>
               ELSE IF diff = 2 THEN <<<<start_cp>>, <<start_cp + 1>>>>
               ELSE <<<<start_cp, cp - 1>>>>
    IN  [categories EXCEPT !.items =
            (last_category :> (dict_get(categories, last_category) \o new)) @@ categories.items]

\* the loop over range(maxunicode + 1) from the code point cp on; the code
\* points above MaxScanPoint change nothing, the else clause of the loop
\* closes the last run at maxunicode + 1
RECURSIVE scan_loop(_, _, _, _, _)
scan_loop(u, cp, categories, last_category, start_cp) ==
    IF cp > Min(MaxScanPoint, maxunicode)
    THEN append_code_points(categories, last_category, start_cp, maxunicode + 1)
    ELSE IF category(u, cp) # last_category
    THEN scan_loop(u, cp + 1, append_code_points(categories, last_category, start_cp, cp),
                   category(u, cp), cp)
    ELSE scan_loop(u, cp + 1, categories, last_category, start_cp)

get_unicodedata_categories(u) ==
    scan_loop(u, 0, [type |-> "defaultdict", items |-> <<>>], "Cc", 0)

\* categories[p1] + categories[p2] + ...
RECURSIVE concat_parts(_, _, _)
concat_parts(categories, parts, k) ==
    IF k > Len(parts) THEN <<>>
    ELSE dict_get(categories, parts[k]) \o concat_parts(categories, parts, k + 1)

\* the exception lines 529-536 raise: a list has no string index, a plain
\* dict no entry for a missing key, a defaultdict makes the entry
general_error(categories) ==
    IF categories.type = "list" THEN "TypeError"
    ELSE IF categories.type = "dict" /\ ~(TwoLetterCategories \subseteq DOMAIN categories.items)
    THEN "KeyError"
    ELSE ""

\* the general categories that leave out the last part of each
add_general_short(categories) ==
    [categories EXCEPT !.items =
        [k \in DOMAIN categories.items \cup TwoLetterCategories \cup GeneralCategories |->
            IF k \in GeneralCategories
            THEN concat_parts(categories, SubSeq(general_parts(k), 1, Len(general_parts(k)) - 1), 1)
            ELSE dict_get(categories, k)]]

\* lines 529-536, when they raise nothing
add_general(categories) ==
    [categories EXCEPT !.items =
        [k \in DOMAIN categories.items \cup TwoLetterCategories \cup GeneralCategories |->
            IF k \in GeneralCategories
            THEN concat_parts(categories, general_parts(k), 1)
            ELSE dict_get(categories, k)]]

\* the exception UnicodeSubset(v) raises for the list v of a table: the sort
\* key x[1] of an empty list, the unpacking of a list of three, or what add
\* raises
table_error(v) ==
    IF \E k \in 1..Len(v) : Len(v[k]) = 0 THEN "IndexError"
    ELSE IF \E k \in 1..Len(v) : Len(v[k]) > 2 THEN "ValueError"
    ELSE UnicodeSubset(v).err

\* the exception line 538 raises, the one of the first list that raises one
construct_error(categories) ==
    LET errors == {table_error(categories.items[k]) : k \in DOMAIN categories.items} \ {""}
    IN  IF errors = {} THEN "" ELSE CHOOSE e \in errors : TRUE

\* line 538, when it raises nothing
construct(categories) ==
    [k \in DOMAIN categories.items |-> UnicodeSubset(categories.items[k]).code_points]

\* the frame of build_unicode_categories before its first statement
build_start(u, cache) ==
    [state |-> "start", unicodedata |-> u, cache |-> cache,
     categories |-> [type |-> "dict", items |-> <<>>], loads |-> 0, scans |-> 0,
     result |-> <<>>, error |-> ""]

\* line 518: the build whose maxunicode is below UCS4_MAXUNICODE scans
ScanNarrow ==
    /\ build.state = "start" /\ maxunicode < UCS4_MAXUNICODE
    /\ build' = [build EXCEPT !.state = "general", !.scans = build.scans + 1,
                               !.categories = get_unicodedata_categories(build.unicodedata)]
    /\ UNCHANGED <<maxunicode, ids, components, code_points, other, third, op, arg, pre, ret, err, gen>>

\* lines 520-525: open the file and json.load it
LoadCache ==
    /\ build.state = "start" /\ maxunicode >= UCS4_MAXUNICODE
    /\ IF build.cache.type \in {"IOError", "ValueError"}
       THEN build' = [build EXCEPT !.state = "except", !.loads = build.loads + 1]
       ELSE build' = [build EXCEPT !.state = "general", !.loads = build.loads + 1,
                                   !.categories = build.cache]
    /\ UNCHANGED <<maxunicode, ids, components, code_points, other, third, op, arg, pre, ret, err, gen>>

\* line 526: the except clause scans
ScanFallback ==
    /\ build.state = "except"
    /\ build' = [build EXCEPT !.state = "general", !.scans = build.scans + 1,
                               !.categories = get_unicodedata_categories(build.unicodedata)]
    /\ UNCHANGED <<maxunicode, ids, components, code_points, other, third, op, arg, pre, ret, err, gen>>

\* lines 529-536
AddGeneral ==
    /\ build.state = "general"
    /\ IF general_error(build.categories) # ""
       THEN build' = [build EXCEPT !.state = "error", !.error = general_error(build.categories)]
       ELSE build' = [build EXCEPT !.state = "construct", !.categories = add_general(build.categories)]
    /\ UNCHANGED <<maxunicode, ids, components, code_points, other, third, op, arg, pre, ret, err, gen>>

\* line 538
BuildSubsets ==
    /\ build.state = "construct"
    /\ IF construct_error(build.categories) # ""
       THEN build' = [build EXCEPT !.state = "error", !.error = construct_error(build.categories)]
       ELSE build' = [build EXCEPT !.state = "done", !.result = construct(build.categories)]
    /\ UNCHANGED <<maxunicode, ids, components, code_points, other, third, op, arg, pre, ret, err, gen>>

\* the library data: code point 0 is a control character
UnicodeData == {u \in [1..(MaxScanPoint + 1) -> ScanCategories] : u[1] = "Cc"}

\* the table save_unicode_categories writes for the library data u, every
\* two-letter category in it
saved_table(u) ==
    [type |-> "dict",
     items |-> [k \in TwoLetterCategories |-> dict_get(get_unicodedata_categories(u), k)]]

\* the table t without the category k
without_category(t, k) == [t EXCEPT !.items = [j \in DOMAIN t.items \ {k} |-> t.items[j]]]

\* the table t with one more entry in the list of the category k
with_entry(t, k, entry) == [t EXCEPT !.items[k] = Append(t.items[k], entry)]

\* what the cache file can hold: nothing readable, no JSON, a JSON list, the
\* saved table, the saved table less a category, the saved table with an
\* entry that is neither a code point nor a pair, the saved table with
\* categories that overlap
CacheFiles(u) ==
    {[type |-> "IOError", items |-> <<>>], [type |-> "ValueError", items |-> <<>>],
     [type |-> "list", items |-> <<>>],
     saved_table(u),
     without_category(saved_table(u), "Cc"), without_category(saved_table(u), "Zp"),
     with_entry(saved_table(u), "Lu", <<1, 2, 3>>), with_entry(saved_table(u), "Lo", <<>>),
     with_entry(saved_table(u), "Lo", <<0, MaxScanPoint>>)}

InitCategories ==
    /\ ids = OwnLists
    /\ maxunicode \in {MaxCodePoint, UCS4_MAXUNICODE}
    /\ code_points = <<>> /\ other = <<>> /\ third = <<>>
    /\ op = "build" /\ arg = <<>> /\ pre = <<>> /\ ret = <<>> /\ err = ""
    /\ gen = NoGen /\ components = NoComponents
    /\ \E u \in UnicodeData : \E cache \in CacheFiles(u) : build = build_start(u, cache)

NextCategories ==
    \/ ScanNarrow
    \/ LoadCache
    \/ ScanFallback
    \/ AddGeneral
    \/ BuildSubsets

SpecCategories == InitCategories /\ [][NextCategories]_vars

\* the cache file of the build is one the load or the table fails on
cache_failure ==
    \/ build.cache.type \in {"IOError", "ValueError", "list"}
    \/ ~(TwoLetterCategories \subseteq DOMAIN build.cache.items)
    \/ \E k \in DOMAIN build.cache.items : \E j \in 1..Len(build.cache.items[k]) :
           Len(build.cache.items[k][j]) \notin {1, 2}

\* the table the full scan of the library data gives
scan_table == construct(add_general(get_unicodedata_categories(build.unicodedata)))

\* C12: whatever I/O, decode or structural failure the cached table has,
\* build_unicode_categories raises nothing, scans exactly once without a
\* second load, and returns the table of the scan.
C12_CacheFailureNeverSurfaces ==
    /\ build.state # "error"
    /\ (build.state = "done" /\ maxunicode >= UCS4_MAXUNICODE /\ cache_failure) =>
           (build.loads = 1 /\ build.scans = 1 /\ build.result = scan_table)

\* the code points the tables are compared on
ScanWindow == 0..(MaxScanPoint + 1) \cup {maxunicode - 1, maxunicode}

\* the number of items of the list l that cover cp
covering(l, cp) == Cardinality({k \in 1..Len(l) : covers(l[k], cp)})

\* C13: in the built table each of C, L, M, N, P, S, Z is exactly the union
\* of its two-letter categories: a code point is in the general category iff
\* it is in one of its parts, no item of the general category covers a code
\* point a second time, and in a table the scan has made every code point is
\* in exactly one two-letter category and in exactly one general category.
C13_GeneralCategoriesPartition ==
    build.state = "done" =>
        \A cp \in ScanWindow :
            /\ \A g \in GeneralCategories :
                   /\ contains(build.result[g], cp) <=>
                          \E k \in 1..Len(general_parts(g)) : contains(build.result[general_parts(g)[k]], cp)
                   /\ covering(build.result[g], cp) <= 1
            /\ build.scans = 1 =>
                   /\ Cardinality({c \in TwoLetterCategories : contains(build.result[c], cp)}) = 1
                   /\ Cardinality({g \in GeneralCategories : contains(build.result[g], cp)}) = 1

\* a scan has made a table whose L is the single range of an Lu and an Lo
\* code point next to each other
C13_Witness ==
    /\ build.state = "done" /\ build.scans = 1
    /\ build.result["Lu"] = <<<<1>>>> /\ build.result["Lo"] = <<<<2>>>>
    /\ build.result["L"] = <<<<1, 2>>>>

\* ---------------------------------------------------------------- iter_xsd_components

\* the children of elem are at most this many
MaxChildren == 4

\* start is at most this
MaxStart == 2

\* child.tag: XSD_ANNOTATION_TAG and the tags of two components
XSD_ANNOTATION_TAG == "annotation"
ChildTags == {XSD_ANNOTATION_TAG, "element", "attribute"}

\* the generator's frame before its first step; pos is the 1-based index of
\* the child the loop takes next, out the indexes of the children yielded
components_start(elem, start) ==
    [state |-> "run", elem |-> elem, start |-> start, counter |-> 0, pos |-> 1,
     out |-> <<>>, error |-> ""]

\* lines 50-52: the child is an annotation
step_annotation(c) ==
    IF c.counter > 0
    THEN [c EXCEPT !.state = "error", !.error = "ValueError", !.pos = c.pos + 1]
    ELSE [c EXCEPT !.pos = c.pos + 1]

\* lines 53-58: the child is a component
step_component(c) ==
    IF c.start > 0
    THEN [c EXCEPT !.start = c.start - 1, !.counter = c.counter + 1, !.pos = c.pos + 1]
    ELSE [c EXCEPT !.out = Append(c.out, c.pos), !.counter = c.counter + 1, !.pos = c.pos + 1]

StepAnnotation ==
    /\ components.state = "run" /\ components.pos <= Len(components.elem)
    /\ components.elem[components.pos] = XSD_ANNOTATION_TAG
    /\ components' = step_annotation(components)
    /\ UNCHANGED <<maxunicode, ids, build, code_points, other, third, op, arg, pre, ret, err, gen>>

StepComponent ==
    /\ components.state = "run" /\ components.pos <= Len(components.elem)
    /\ components.elem[components.pos] # XSD_ANNOTATION_TAG
    /\ components' = step_component(components)
    /\ UNCHANGED <<maxunicode, ids, build, code_points, other, third, op, arg, pre, ret, err, gen>>

\* the loop is over: StopIteration
StepStop ==
    /\ components.state = "run" /\ components.pos > Len(components.elem)
    /\ components' = [components EXCEPT !.state = "done"]
    /\ UNCHANGED <<maxunicode, ids, build, code_points, other, third, op, arg, pre, ret, err, gen>>

InitComponents ==
    /\ ids = OwnLists
    /\ maxunicode = UCS4_MAXUNICODE
    /\ code_points = <<>> /\ other = <<>> /\ third = <<>>
    /\ op = "iter_xsd_components" /\ pre = <<>> /\ ret = <<>> /\ err = ""
    /\ gen = NoGen /\ build = NoBuild
    /\ \E elem \in SeqsUpTo(ChildTags, MaxChildren), start \in 0..MaxStart :
           /\ arg = [elem |-> elem, start |-> start]
           /\ components = components_start(elem, start)

NextComponents ==
    \/ StepAnnotation
    \/ StepComponent
    \/ StepStop

SpecComponents == InitComponents /\ [][NextComponents]_vars

\* the indexes of the children of elem that are no annotation, in document order
RECURSIVE component_indexes(_, _)
component_indexes(elem, k) ==
    IF k > Len(elem) THEN <<>>
    ELSE (IF elem[k] = XSD_ANNOTATION_TAG THEN <<>> ELSE <<k>>) \o component_indexes(elem, k + 1)

\* the sequence q without its first n elements
drop_first(q, n) == SubSeq(q, Min(n, Len(q)) + 1, Len(q))

\* elem has an annotation after its first child
late_annotation(elem) == \E k \in 2..Len(elem) : elem[k] = XSD_ANNOTATION_TAG

\* C18: a full iteration yields the children that are no annotation, in
\* document order, less the first start of them; it ends without exception
\* only when no annotation stands after the first position, and the
\* exception it raises otherwise is a ValueError.
C18_AnnotationOnlyFirst ==
    /\ components.state = "done" =>
           /\ components.out = drop_first(component_indexes(components.elem, 1), arg.start)
           /\ ~late_annotation(components.elem)
    /\ components.state = "error" =>
           (components.error = "ValueError" /\ late_annotation(components.elem))

\* the position of the end character of the range the hyphen at gen.i specifies
range_end_index ==
    IF /\ s_at(gen, gen.i + 1) = "\\" /\ gen.i + 2 < Len(gen.s)
       /\ s_at(gen, gen.i + 2) \in GroupEscapedChars
    THEN gen.i + 2 ELSE gen.i + 1

\* the range tokens of a sequence of tokens are well ordered
ranges_ordered(out) == \A k \in 1..Len(out) : Len(out[k]) = 2 => out[k][1] <= out[k][2]

\* C11: a range whose end character has a lower code point than its start
\* character makes parsing fail with the error "bad character range"; every
\* range token the parser emits has lo <= hi; the lazy parse of a-z gives the
\* single token (97, 122).
C11_RangeOrder ==
    [][/\ (at_hyphen /\ ~literal_hyphen /\ ord(gen.char) > ord(s_at(gen, range_end_index))) =>
              (gen'.state = "error" /\ gen'.error.kind = "bad character range" /\ gen'.out = gen.out)
       /\ ranges_ordered(gen'.out)
       /\ (gen'.state = "done" /\ gen.s = <<"a", "-", "z">> /\ ~gen.expand_ranges) =>
              gen'.out = <<<<97, 122>>>>]_vars

\* the lazy parse of z-a has failed at its range
C11_Witness ==
    /\ gen.state = "error" /\ gen.s = <<"z", "-", "a">> /\ ~gen.expand_ranges
    /\ gen.error.kind = "bad character range" /\ gen.out = <<>>

\* the library data that gives the category Cc to the members of the list l
\* and the category Lu to every other code point
membership_data(l) ==
    [k \in 1..(MaxScanPoint + 1) |-> IF contains(l, k - 1) THEN "Cc" ELSE "Lu"]

\* the code points from MaxScanPoint on are all members of l or all missing
uniform_above(l) ==
    \A cp \in MaxScanPoint..maxunicode : contains(l, cp) = contains(l, MaxScanPoint)

\* C21: complement and the scan of the category table coalesce a run of
\* consecutive code points in the same way: the atoms complement yields for
\* the code points a set misses are the atoms the scan stores for a category
\* that holds exactly those code points.
C21_SameCoalescing ==
    (op = "complement" /\ err = "" /\ uniform_above(pre)) =>
        ret = dict_get(get_unicodedata_categories(membership_data(pre)), "Lu")

\* ---------------------------------------------------------------------------
\* SpecScan: get_unicodedata_categories over any library data: arg is the
\* category the library gives to each code point, ret the table of the scan.

ScanData == [1..(MaxScanPoint + 1) -> ScanCategories]

Scan ==
    /\ op = "init"
    /\ op' = "get_unicodedata_categories" /\ pre' = <<>> /\ err' = ""
    /\ ret' = get_unicodedata_categories(arg).items
    /\ UNCHANGED <<maxunicode, ids, build, components, code_points, other, third, arg, gen>>

InitScan ==
    /\ ids = OwnLists
    /\ maxunicode \in {MaxCodePoint, UCS4_MAXUNICODE}
    /\ arg \in ScanData
    /\ code_points = <<>> /\ other = <<>> /\ third = <<>>
    /\ op = "init" /\ pre = <<>> /\ ret = <<>> /\ err = ""
    /\ gen = NoGen /\ build = NoBuild /\ components = NoComponents

NextScan == Scan

SpecScan == InitScan /\ [][NextScan]_vars

\* an atom of a category list is a code point or a range lo <= hi of the domain
valid_atom(x) ==
    IF Len(x) = 1 THEN x[1] \in 0..maxunicode
    ELSE x[1] <= x[2] /\ x[1] \in 0..maxunicode /\ x[2] \in 0..maxunicode

\* the list the table t holds for the category k
table_list(t, k) == IF k \in DOMAIN t THEN t[k] ELSE <<>>

\* the table t holds valid atoms only and each code point of the window is
\* covered by one atom of the list of its own category and by no other atom
partitions(u, t) ==
    /\ \A k \in DOMAIN t : \A j \in 1..Len(t[k]) : valid_atom(t[k][j])
    /\ \A cp \in ScanWindow : \A k \in ScanCategories :
           covering(table_list(t, k), cp) = IF category(u, cp) = k THEN 1 ELSE 0

covered_code_points(out) == UNION {start_of(out[k])..end_of(out[k]) : k \in 1..Len(out)}

\* the parse of the same body in the other mode
other_mode == parse_character_group(gen.s, ~gen.expand_ranges)

\* C23: eager and lazy parsing agree: a body fails with expand_ranges=True iff
\* it fails with expand_ranges=False, and when both succeed the code points
\* emitted in eager mode are the code points the tokens of lazy mode cover.
C23_EagerLazyAgree ==
    gen.state \in {"done", "error"} =>
        /\ other_mode.state = gen.state
        /\ gen.state = "error" => other_mode.error = gen.error
        /\ gen.state = "done" =>
               covered_code_points(other_mode.out) = covered_code_points(gen.out)

\* a lazy parse has ended with a range token in a body the eager parse
\* turns into more tokens
C23_Witness ==
    /\ gen.state = "done" /\ ~gen.expand_ranges
    /\ \E k \in 1..Len(gen.out) : Len(gen.out[k]) = 2 /\ gen.out[k][1] < gen.out[k][2]
    /\ Len(other_mode.out) > Len(gen.out)

\* the tokens the step from gen to gen' emits
emitted == SubSeq(gen'.out, Len(gen.out) + 1, Len(gen'.out))

\* the step from gen to gen' looks at the character c
looks_at(c) == gen.state = "run" /\ gen.i < Len(gen.s) /\ s_at(gen, gen.i) = c

\* the characters that are emitted alone after an escaping backslash
EscapableChars == {"-"} \cup BracketChars \cup MetaChars

\* C24: a backslash the scanner looks at enters the Escaped state without
\* emitting; a second backslash while Escaped emits one literal backslash (92)
\* and clears Escaped; an ordinary character while Escaped emits a literal
\* backslash and then the character; a hyphen, a bracket or one of
\* | . ^ ? * + { } ( ) while Escaped emits only that character; a body that
\* ends while Escaped emits a trailing literal backslash; no step that emits
\* leaves Escaped set.
C24_EscapeHandling ==
    [][/\ (looks_at("\\") /\ ~gen.escaped) =>
              (gen'.state = "run" /\ gen'.escaped /\ emitted = <<>>)
       /\ (looks_at("\\") /\ gen.escaped) =>
              (gen'.state = "run" /\ ~gen'.escaped /\ emitted = <<<<92>>>>)
       /\ \A c \in Chars \ ({"\\"} \cup EscapableChars) :
              (looks_at(c) /\ gen.escaped) =>
                  (gen'.state = "run" /\ ~gen'.escaped /\ emitted = <<<<92>>, <<ord(c)>>>>)
       /\ \A c \in EscapableChars :
              (looks_at(c) /\ gen.escaped) =>
                  (gen'.state = "run" /\ ~gen'.escaped /\ emitted = <<<<ord(c)>>>>)
       /\ (gen.state = "run" /\ gen.i >= Len(gen.s) /\ gen.escaped) =>
              (gen'.state = "done" /\ emitted = <<<<92>>>>)
       /\ (gen.state = "run" /\ gen.i >= Len(gen.s) /\ ~gen.escaped) =>
              (gen'.state = "done" /\ emitted = <<>>)
       /\ (gen'.state = "run" /\ emitted # <<>>) => ~gen'.escaped]_vars

\* the parse of \a\- has ended: the escaped ordinary character came out
\* behind a literal backslash, the escaped hyphen alone
C24_Witness ==
    /\ gen.state = "done" /\ gen.s = <<"\\", "a", "\\", "-">>
    /\ gen.out = <<<<92>>, <<97>>, <<45>>>>

\* ---------------------------------------------------------------------------
\* SpecShare: the sets self (code_points) and other, and a third set made
\* from them by copy(), by self - other or by UnicodeSubset(self).  ids gives
\* the identity of the list each set holds: a change made in place to a list
\* shows in every set that holds it.  ids.third = 0: no third set yet.

\* the highest code point of the sets of SpecShare
MaxShareCodePoint == 1

SetNames == {"code_points", "other", "third"}

\* the identity of a list that list() or a call on a fresh object creates
list_new(i) == CHOOSE k \in 1..3 : k \notin {i.code_points, i.other}

\* the list of the set name, not copied
list_alias(i, name) == i[name]

\* the identity of args[0].code_points.copy()
list_copy(i, name) == list_new(i)

\* the lists after the list of the set name has become l in place
stored(name, l) ==
    [code_points |-> IF ids.code_points = ids[name] THEN l ELSE code_points,
     other |-> IF ids.other = ids[name] THEN l ELSE other,
     third |-> IF ids.third = ids[name] THEN l ELSE third]

held(name) == CASE name = "code_points" -> code_points [] name = "other" -> other [] name = "third" -> third

\* a call that changes the set name in place to the list l
Mutate(name, call, l) ==
    /\ ids[name] # 0
    /\ op' = call /\ arg' = <<name>> /\ pre' = <<>> /\ ret' = <<>> /\ err' = ""
    /\ code_points' = stored(name, l).code_points
    /\ other' = stored(name, l).other
    /\ third' = stored(name, l).third
    /\ UNCHANGED <<maxunicode, ids, build, components, gen>>

\* a call that returns a new set with the list l of identity k
Make(call, l, k) ==
    /\ op' = call /\ arg' = <<>> /\ pre' = <<>> /\ ret' = <<>> /\ err' = ""
    /\ ids' = [ids EXCEPT !.third = k, !.made_by = call]
    /\ code_points' = IF k = ids.code_points THEN l ELSE code_points
    /\ other' = IF k = ids.other THEN l ELSE other
    /\ third' = l
    /\ UNCHANGED <<maxunicode, build, components, gen>>

\* third = self.copy()
ShareCopy == Make("copy", copy(code_points), list_new(ids))

\* third = self - other
ShareSub == Make("sub", sub(code_points, other), list_new(ids))

\* third = UnicodeSubset(self)
ShareConstruct == Make("construct", code_points, list_copy(ids, "code_points"))

InitShare ==
    /\ maxunicode = MaxShareCodePoint
    /\ ids = [OwnLists EXCEPT !.third = 0]
    /\ code_points = <<>> /\ other = <<>> /\ third = <<>>
    /\ op = "init" /\ arg = <<>> /\ pre = <<>> /\ ret = <<>> /\ err = ""
    /\ gen = NoGen /\ build = NoBuild /\ components = NoComponents

NextShare ==
    \/ \E name \in SetNames, value \in Items(0, maxunicode) :
           Mutate(name, "add", add(held(name), value))
    \/ \E name \in SetNames, value \in Items(0, maxunicode) :
           Mutate(name, "discard", discard(held(name), value))
    \/ \E name \in SetNames : Mutate(name, "clear", clear(held(name)))
    \/ ShareCopy
    \/ ShareSub
    \/ ShareConstruct

SpecShare == InitShare /\ [][NextShare]_vars

\* C25: self - other returns a new set and leaves self and other unchanged;
\* the set copy(), self - other or UnicodeSubset(self) returns holds a list of
\* its own, and a later change of it or of its source leaves the atom list of
\* the other one unchanged.
C25_CopyOnShare ==
    [][/\ op' \in {"copy", "sub", "construct"} =>
              /\ code_points' = code_points /\ other' = other
              /\ ids'.third \notin {ids'.code_points, ids'.other}
       /\ (op' \in {"add", "discard", "clear"} /\ ids.third # 0) =>
              IF arg' = <<"third">>
              THEN code_points' = code_points /\ other' = other
              ELSE third' = third]_vars

\* the set UnicodeSubset(self) returned still has the code point that has
\* just been discarded from self
C25_Witness ==
    /\ op = "discard" /\ arg = <<"code_points">> /\ ids.made_by = "construct"
    /\ \E cp \in 0..maxunicode : contains(third, cp) /\ ~contains(code_points, cp)

\* ---------------------------------------------------------------------------
\* SpecMutations: every public mutation of a set, with valid arguments: the
\* values and the bodies are made of the letters from a on, update and
\* difference_update take two values in any order or a body, the second set
\* other is reached by add and discard.

MutValues == Items(ord("a"), ord("a") + MaxShareCodePoint)

MutBodies == {<<"a", "-", "c">>, <<"a", "-", "b">>, <<"b">>, <<"a", "c">>, <<"c", "\\", "-", "a">>}

\* a call that leaves self as the list l
Mutation(call, l) ==
    /\ op' = call /\ arg' = <<>> /\ pre' = <<>> /\ ret' = <<>> /\ err' = ""
    /\ code_points' = l
    /\ UNCHANGED <<maxunicode, ids, build, components, other, third, gen>>

\* add and discard on the second set
MutOther(call, l) ==
    /\ op' = call /\ arg' = <<>> /\ pre' = <<>> /\ ret' = <<>> /\ err' = ""
    /\ other' = l
    /\ UNCHANGED <<maxunicode, ids, build, components, code_points, third, gen>>

InitMutations ==
    /\ ids = OwnLists
    /\ maxunicode = UCS4_MAXUNICODE
    /\ code_points = <<>> /\ other = <<>> /\ third = <<>>
    /\ op = "init" /\ arg = <<>> /\ pre = <<>> /\ ret = <<>> /\ err = ""
    /\ gen = NoGen /\ build = NoBuild /\ components = NoComponents

NextMutations ==
    \/ \E value \in MutValues : Mutation("add", add(code_points, value))
    \/ \E value \in MutValues : Mutation("discard", discard(code_points, value))
    \/ \E values \in MutValues \X MutValues :
           Mutation("update", update(code_points, values).code_points)
    \/ \E s \in MutBodies : Mutation("update_str", update_str(code_points, s).code_points)
    \/ \E values \in MutValues \X MutValues :
           Mutation("difference_update", difference_update(code_points, values).code_points)
    \/ \E s \in MutBodies :
           Mutation("difference_update_str", difference_update_str(code_points, s).code_points)
    \/ Mutation("ior", ior(code_points, other))
    \/ Mutation("isub", isub(code_points, other))
    \/ Mutation("iand", iand(code_points, other))
    \/ Mutation("ixor", ixor(code_points, other))
    \/ Mutation("ixor_self", clear(code_points))
    \/ Mutation("clear", clear(code_points))
    \/ \E value \in MutValues : MutOther("other_add", add(other, value))
    \/ \E value \in MutValues : MutOther("other_discard", discard(other, value))

SpecMutations == InitMutations /\ [][NextMutations]_vars

\* the atoms of l have lo <= hi, are sorted by lower bound and do not overlap
well_formed(l) ==
    /\ \A k \in 1..Len(l) : start_of(l[k]) <= end_of(l[k])
    /\ \A k \in 1..(Len(l) - 1) : end_of(l[k]) < start_of(l[k + 1])

\* C26: after any sequence of add, discard, update, difference_update, |=,
\* -=, &=, ^= and clear with valid arguments from the empty set the atoms are
\* sorted by lower bound, each atom has lo <= hi and no two atoms overlap;
\* complement raises nothing on such a set.
C26_MutationsKeepOrder ==
    /\ well_formed(code_points) /\ well_formed(other)
    /\ complement(code_points).err = ""

\* a symmetric difference has left two atoms, the first of them a range
C26_Witness ==
    /\ op = "ixor" /\ Len(code_points) = 2
    /\ Len(code_points[1]) = 2 /\ code_points[1][1] < code_points[1][2]
    /\ other # <<>>

\* the code points a list of SpecMutations can hold
MutWindow ==
    {ord("-")} \cup ord("a")..ord("c") \cup ord("a")..(ord("a") + MaxShareCodePoint)

\* the lists l and m hold the same code points
same_code_points(l, m) == \A cp \in MutWindow : contains(l, cp) <=> contains(m, cp)

\* C27: the stored representation is canonical: two sets reached through the
\* public operations that hold the same code points have the same atom
\* sequence and compare equal, a single code point is never stored as a range
\* with lo == hi, and S.copy() == S for every reachable set S.
C27_Canonical ==
    /\ same_code_points(code_points, other) => (code_points = other /\ eq(code_points, other))
    /\ \A k \in 1..Len(code_points) : Len(code_points[k]) = 2 => code_points[k][1] < code_points[k][2]
    /\ eq(copy(code_points), code_points)

\* the body s makes the parser raise
fails_to_parse(s) == parse_character_group(s, FALSE).state = "error"

\* C28: update and difference_update with a character group body are
\* all-or-nothing with respect to grammar errors: when the body makes the
\* parser raise at any position, the error reaches the caller and the atom
\* list is what it was before the call.
C28_BodyAllOrNothing ==
    (op \in {"update", "difference_update"} /\ fails_to_parse(arg)) =>
        (err = "XMLSchemaRegexError" /\ code_points = pre)

\* update with af-a has failed on a set without a after the parser had
\* yielded the tokens a and f
C28_Witness ==
    /\ op = "update" /\ arg = <<"a", "f", "-", "a">> /\ err = "XMLSchemaRegexError"
    /\ parse_character_group(arg, FALSE).out = <<<<ord("a")>>, <<ord("f")>>>>
    /\ code_points # <<>> /\ ~contains(code_points, ord("a"))

====
